---------------------------- MODULE Spec2Model ----------------------------
(***************************************************************************)
(* EncryptedMessages (contracts/EncryptedMessages.sol): an on-chain        *)
(* registry of FHE-encrypted messages.  The registry state is the three    *)
(* storage variables of the contract; the FHE library it calls is the      *)
(* collaborator, modelled by its access-control list and by its verdict on *)
(* an input proof; the ledger is modelled by block.timestamp and by the    *)
(* event log.  Every external function is one atomic action (a ledger      *)
(* transaction or call): a revert leaves the storage as it was.            *)
(***************************************************************************)
EXTENDS Integers, Sequences, FiniteSets, TLC

(***************************************************************************)
(* Bounds of the model.                                                    *)
(***************************************************************************)
\* Submissions are accepted while _totalMessages is below this.
MaxMessages == 2
\* block.timestamp runs from 1 to MaxTime.
MaxTime == 2
\* Where grants also change outside the registry (SpecGrants), submissions
\* are accepted while _totalMessages is below this.
MaxMessagesWithGrants == 1

(***************************************************************************)
(* Identities.  address(0) is the default sender of an absent record,      *)
(* Registry is address(this); the other three are the test's signers.      *)
(***************************************************************************)
ZeroAddress == "0x0"
Registry == "registry"
Deployer == "deployer"
\* The signers that submit; the deployer, like any address, calls the views.
Signers == {"alice", "bob"}
Address == {ZeroAddress, Registry, Deployer} \cup Signers

\* Clear inputs the tests submit: <<uint64 content, uint32 timestamp>>.
ClearInputs == {<<111, 1000>>, <<222, 2000>>}

\* Message ids the model looks at: MaxMessages itself is never assigned.
MessageIds == 0..MaxMessages

(***************************************************************************)
(* Ciphertext handles (bytes32 in the contract).  A handle is opaque to    *)
(* the registry; the model keeps what the collaborator knows of it: how it *)
(* was made, its FHE type, for whom it was encrypted and the clear value.  *)
(***************************************************************************)
ZeroHandle == [src |-> "zero", type |-> "none", user |-> ZeroAddress, value |-> 0]

\* One handle of fhevm.createEncryptedInput(contract, user).addNN(v).encrypt()
InputHandle(user, type, v) ==
    [src |-> "input", type |-> type, user |-> user, value |-> v]

\* FHE.asEuint64 / FHE.asEuint32: the trivial encryption of a plaintext; the
\* handle is a function of the value and the type alone.
FHE_asEuint(type, v) ==
    [src |-> "trivial", type |-> type, user |-> ZeroAddress, value |-> v]

\* createEncryptedInput(contractAddress, user).add64(c).add32(t).encrypt():
\* two handles and one proof binding them to the contract and the user.
EncryptInput(contract, user, c, t) ==
    LET h0 == InputHandle(user, "euint64", c)
        h1 == InputHandle(user, "euint32", t)
    IN  [handles |-> <<h0, h1>>,
         inputProof |-> [contract |-> contract, user |-> user, handles |-> {h0, h1}]]

\* The collaborator's verdict on FHE.fromExternal(handle, inputProof) called
\* by the registry on behalf of msg.sender for an external handle of `type`.
FHE_verify(handle, inputProof, type, sender) ==
    /\ inputProof.contract = Registry
    /\ inputProof.user = sender
    /\ handle \in inputProof.handles
    /\ handle.type = type

(***************************************************************************)
(* State.                                                                  *)
(***************************************************************************)
VARIABLES
    messages,       \* _messages: messageId -> Message
    userMessages,   \* _userMessages: address -> sequence of messageId
    totalMessages,  \* _totalMessages
    acl,            \* the collaborator's grants: set of <<handle, address>>
    events,         \* the ledger's log of this contract's events
    now,            \* block.timestamp
    submissions,    \* history: the accepted submissions (caller, arguments,
                    \* imported handles, block time), in call order
    ret,            \* outcome of the last transaction or call
    \* The page of the frontend (app/page.tsx, component Home):
    chainId,        \* the wallet's chain
    account,        \* accounts[0] with its ethersSigner, "none" when disconnected
    homeMessages,   \* useState<Message[]>: the list shown under "Your Messages"
    isLoading,      \* useState(false)
    localMessageContents,   \* useState<Record<number, string>>
    loads,          \* the loadMessages calls in flight, oldest first
    submit,         \* the submitMessage call in flight, and the last one's outcome
    decrypts,       \* the decryptMessage calls in flight, oldest first
    toast           \* title of the last toast decryptMessage has raised

registry == <<messages, userMessages, totalMessages>>
home == <<chainId, account, homeMessages, isLoading, localMessageContents, loads,
          submit, decrypts, toast>>
vars == <<messages, userMessages, totalMessages, acl, events, now, submissions, ret,
          chainId, account, homeMessages, isLoading, localMessageContents, loads,
          submit, decrypts, toast>>

\* Mutant: an unset record whose sender is the deployer.
DefaultMessage_deployerSender ==
    [sender |-> Deployer, encryptedContent |-> ZeroHandle,
     encryptedTimestamp |-> ZeroHandle, createdAt |-> 0, exists |-> FALSE]

\* struct Message's default value: what a mapping returns for an unset key.
DefaultMessage ==
    [sender |-> ZeroAddress, encryptedContent |-> ZeroHandle,
     encryptedTimestamp |-> ZeroHandle, createdAt |-> 0, exists |-> FALSE]

RegistryInit ==
    /\ messages = [i \in MessageIds |-> DefaultMessage]
    /\ userMessages = [a \in Address |-> <<>>]
    /\ totalMessages = 0
    /\ acl = {}
    /\ events = <<>>
    /\ now = 1
    /\ submissions = <<>>
    /\ ret = [kind |-> "deploy", status |-> "ok", at |-> ""]

\* The page before a wallet is connected: the useState initial values.
NoAccount == "none"
\* No submitMessage call in flight; `result` is how the last one ended:
\* "ok", "thrown" (by a guard before the try: no toast) or "rethrown" (by the
\* catch block, after the "Submission Failed" toast).
Idle(result) ==
    [stage |-> "idle", account |-> NoAccount, content |-> "", messageId |-> -1,
     result |-> result]

HomeInit ==
    /\ account = NoAccount
    /\ homeMessages = <<>>
    /\ isLoading = FALSE
    /\ localMessageContents = [id \in {} |-> ""]
    /\ loads = <<>>
    /\ submit = Idle("none")
    /\ decrypts = <<>>
    /\ toast = "none"

\* The contract alone: the page stays as it starts, on the Hardhat chain.
Init ==
    /\ RegistryInit
    /\ HomeInit
    /\ chainId = 31337


(***************************************************************************)
(* Outcomes.  A view function returns a value or reverts with a reason     *)
(* string; a transaction succeeds or reverts.  Of the last transaction or  *)
(* call the state keeps its kind and its status (and, for a rejected       *)
(* import, which of the two handles was rejected), not the value returned. *)
(***************************************************************************)
Ok(v) == [ok |-> TRUE, err |-> "", val |-> v]
Revert(e) == [ok |-> FALSE, err |-> e, val |-> <<>>]
Status(r) == IF r.ok THEN "ok" ELSE r.err

(***************************************************************************)
(* submitMessage, statement by statement.                                  *)
(***************************************************************************)
\* Mutants of the allocation: ++_totalMessages (the value after the
\* increment), and an allocation that forgets the increment.
AllocateMessageId_preIncrement(total) == [messageId |-> total + 1, total |-> total + 1]
AllocateMessageId_noIncrement(total) == [messageId |-> total, total |-> total]

\* uint256 messageId = _totalMessages++;  (the value before the increment)
AllocateMessageId(total) == [messageId |-> total, total |-> total + 1]

\* Mutant: the two handles stored in each other's field.
NewMessage_swappedHandles(sender, content, timestamp, time) ==
    [sender |-> sender, encryptedContent |-> timestamp,
     encryptedTimestamp |-> content, createdAt |-> time, exists |-> TRUE]

\* Mutant: createdAt taken from the submitted timestamp, not from the block.
NewMessage_clientTime(sender, content, timestamp, time) ==
    [sender |-> sender, encryptedContent |-> content,
     encryptedTimestamp |-> timestamp, createdAt |-> timestamp.value, exists |-> TRUE]

\* Message({sender: msg.sender, encryptedContent: content,
\*          encryptedTimestamp: timestamp, createdAt: block.timestamp, exists: true})
NewMessage(sender, content, timestamp, time) ==
    [sender |-> sender, encryptedContent |-> content,
     encryptedTimestamp |-> timestamp, createdAt |-> time, exists |-> TRUE]

\* Mutant: the id is put at the front of the sender's list.
PushUserMessage_prepend(um, sender, messageId) ==
    [um EXCEPT ![sender] = <<messageId>> \o @]

\* Mutant: the sender's list is assigned, not appended to.
PushUserMessage_replace(um, sender, messageId) ==
    [um EXCEPT ![sender] = <<messageId>>]

\* Mutant: the id is appended to every identity's list.
PushUserMessage_everyone(um, sender, messageId) ==
    [u \in DOMAIN um |-> Append(um[u], messageId)]

\* _userMessages[msg.sender].push(messageId);
PushUserMessage(um, sender, messageId) ==
    [um EXCEPT ![sender] = Append(@, messageId)]

\* Mutant: FHE.allow(timestamp, msg.sender) is left out.
GrantAccess_noSenderTimestamp(grants, content, timestamp, sender) ==
    grants \cup {<<content, Registry>>, <<content, sender>>, <<timestamp, Registry>>}

\* Mutant: only the FHE.allowThis calls are made.
GrantAccess_registryOnly(grants, content, timestamp, sender) ==
    grants \cup {<<content, Registry>>, <<timestamp, Registry>>}

\* FHE.allowThis(content); FHE.allow(content, msg.sender);
\* FHE.allowThis(timestamp); FHE.allow(timestamp, msg.sender);
GrantAccess(grants, content, timestamp, sender) ==
    grants \cup {<<content, Registry>>, <<content, sender>>,
                 <<timestamp, Registry>>, <<timestamp, sender>>}

\* Mutant: the event carries the total after the increment as the id.
MessageSubmitted_totalAsId(messageId, sender, time) ==
    [name |-> "MessageSubmitted", messageId |-> messageId + 1,
     sender |-> sender, timestamp |-> time]

\* emit MessageSubmitted(messageId, msg.sender, block.timestamp);
MessageSubmitted(messageId, sender, time) ==
    [name |-> "MessageSubmitted", messageId |-> messageId,
     sender |-> sender, timestamp |-> time]

\* Mutant: the timestamp handle is stored without being imported.
ImportVerdict_contentOnly(caller, encryptedContent, encryptedTimestamp, inputProof) ==
    IF ~FHE_verify(encryptedContent, inputProof, "euint64", caller)
    THEN "content"
    ELSE "accepted"

\* The two FHE.fromExternal calls, in order; the first rejected import
\* reverts the transaction.
ImportVerdict(caller, encryptedContent, encryptedTimestamp, inputProof) ==
    IF ~FHE_verify(encryptedContent, inputProof, "euint64", caller)
    THEN "content"
    ELSE IF ~FHE_verify(encryptedTimestamp, inputProof, "euint32", caller)
         THEN "timestamp"
         ELSE "accepted"

\* Mutant: the increment of the counter and the rest of the function applied
\* as two steps, so that other calls come between them.
submitMessage_notAtomic(caller, encryptedContent, encryptedTimestamp, inputProof) ==
    LET verdict == ImportVerdict(caller, encryptedContent, encryptedTimestamp, inputProof)
        messageId == totalMessages - 1
    IN  /\ verdict = "accepted"
        /\ IF totalMessages = Len(submissions)
           THEN /\ totalMessages < MaxMessages
                /\ totalMessages' = totalMessages + 1
                /\ ret' = [kind |-> "tx", status |-> "pending", at |-> ""]
                /\ UNCHANGED <<messages, userMessages, acl, events, now, submissions>>
           ELSE /\ messages' = [messages EXCEPT ![messageId] =
                        NewMessage(caller, encryptedContent, encryptedTimestamp, now)]
                /\ userMessages' = PushUserMessage(userMessages, caller, messageId)
                /\ acl' = GrantAccess(acl, encryptedContent, encryptedTimestamp, caller)
                /\ events' = Append(events, MessageSubmitted(messageId, caller, now))
                /\ submissions' = Append(submissions,
                       [op |-> "submitMessage", caller |-> caller,
                        content |-> encryptedContent, timestamp |-> encryptedTimestamp,
                        time |-> now,
                        external |-> <<encryptedContent, encryptedTimestamp, inputProof>>])
                /\ ret' = [kind |-> "tx", status |-> "ok", at |-> ""]
                /\ UNCHANGED <<totalMessages, now>>

\* function submitMessage(externalEuint64, externalEuint32, bytes calldata)
submitMessage(caller, encryptedContent, encryptedTimestamp, inputProof) ==
    LET verdict == ImportVerdict(caller, encryptedContent, encryptedTimestamp, inputProof)
        content == encryptedContent
        timestamp == encryptedTimestamp
        a == AllocateMessageId(totalMessages)
    IN  IF verdict = "accepted"
        THEN /\ totalMessages < MaxMessages
             /\ totalMessages' = a.total
             /\ messages' = [messages EXCEPT ![a.messageId] =
                                 NewMessage(caller, content, timestamp, now)]
             /\ userMessages' = PushUserMessage(userMessages, caller, a.messageId)
             /\ acl' = GrantAccess(acl, content, timestamp, caller)
             /\ events' = Append(events, MessageSubmitted(a.messageId, caller, now))
             /\ submissions' = Append(submissions,
                    [op |-> "submitMessage", caller |-> caller, content |-> content,
                     timestamp |-> timestamp, time |-> now,
                     external |-> <<encryptedContent, encryptedTimestamp, inputProof>>])
             /\ ret' = [kind |-> "tx", status |-> "ok", at |-> ""]
             /\ UNCHANGED now
        ELSE /\ ret' = [kind |-> "tx", status |-> "ProofInvalid", at |-> verdict]
             /\ UNCHANGED <<messages, userMessages, totalMessages, acl, events,
                            now, submissions>>

\* Mutant: the mock path makes no grants.
submitMessageMock_noGrants(caller, content, timestamp) ==
    LET encContent == FHE_asEuint("euint64", content)
        encTimestamp == FHE_asEuint("euint32", timestamp)
        a == AllocateMessageId(totalMessages)
    IN  /\ totalMessages < MaxMessages
        /\ totalMessages' = a.total
        /\ messages' = [messages EXCEPT ![a.messageId] =
                            NewMessage(caller, encContent, encTimestamp, now)]
        /\ userMessages' = PushUserMessage(userMessages, caller, a.messageId)
        /\ acl' = acl
        /\ events' = Append(events, MessageSubmitted(a.messageId, caller, now))
        /\ submissions' = Append(submissions,
               [op |-> "submitMessageMock", caller |-> caller, content |-> encContent,
                timestamp |-> encTimestamp, time |-> now,
                external |-> <<content, timestamp>>])
        /\ ret' = [kind |-> "tx", status |-> "ok", at |-> ""]
        /\ UNCHANGED now

\* function submitMessageMock(uint64 content, uint32 timestamp)
submitMessageMock(caller, content, timestamp) ==
    LET encContent == FHE_asEuint("euint64", content)
        encTimestamp == FHE_asEuint("euint32", timestamp)
        a == AllocateMessageId(totalMessages)
    IN  /\ totalMessages < MaxMessages
        /\ totalMessages' = a.total
        /\ messages' = [messages EXCEPT ![a.messageId] =
                            NewMessage(caller, encContent, encTimestamp, now)]
        /\ userMessages' = PushUserMessage(userMessages, caller, a.messageId)
        /\ acl' = GrantAccess(acl, encContent, encTimestamp, caller)
        /\ events' = Append(events, MessageSubmitted(a.messageId, caller, now))
        /\ submissions' = Append(submissions,
               [op |-> "submitMessageMock", caller |-> caller, content |-> encContent,
                timestamp |-> encTimestamp, time |-> now,
                external |-> <<content, timestamp>>])
        /\ ret' = [kind |-> "tx", status |-> "ok", at |-> ""]
        /\ UNCHANGED now

(***************************************************************************)
(* The view functions: each is a function of the storage, of msg.sender    *)
(* (`caller`, where the function reads it) and of its arguments, and       *)
(* returns a value or reverts with a reason string.                        *)
(***************************************************************************)
\* function getUserMessages() external view returns (uint256[] memory)
getUserMessages(caller) == Ok(userMessages[caller])

\* Mutant: the registry's total instead of the user's count.
getUserMessageCount_total(user) == Ok(totalMessages)

\* function getUserMessageCount(address user) external view returns (uint256)
getUserMessageCount(user) == Ok(Len(userMessages[user]))

\* Mutant: a lookup that requires the message to exist.
getMessageMetadata_requireExists(messageId) ==
    LET message == messages[messageId]
    IN  IF ~message.exists THEN Revert("Message does not exist")
        ELSE Ok(<<message.sender, message.createdAt, message.exists>>)

\* function getMessageMetadata(uint256 messageId)
getMessageMetadata(messageId) ==
    LET message == messages[messageId]
    IN  Ok(<<message.sender, message.createdAt, message.exists>>)

\* Mutant: the ownership require is left out.
getEncryptedContent_noOwnerCheck(caller, messageId) ==
    IF ~messages[messageId].exists THEN Revert("Message does not exist")
    ELSE Ok(messages[messageId].encryptedContent)

\* Mutant: the caller is authorized by its grant on the handle, not by being
\* the sender.
getEncryptedContent_grantBased(caller, messageId) ==
    IF ~messages[messageId].exists THEN Revert("Message does not exist")
    ELSE IF ~(<<messages[messageId].encryptedContent, caller>> \in acl)
         THEN Revert("Not authorized")
    ELSE Ok(messages[messageId].encryptedContent)

\* function getEncryptedContent(uint256 messageId) external view returns (euint64)
getEncryptedContent(caller, messageId) ==
    IF ~messages[messageId].exists THEN Revert("Message does not exist")
    ELSE IF ~(messages[messageId].sender = caller) THEN Revert("Not authorized")
    ELSE Ok(messages[messageId].encryptedContent)

\* Mutant: the two requires in the other order.
getEncryptedTimestamp_ownerFirst(caller, messageId) ==
    IF ~(messages[messageId].sender = caller) THEN Revert("Not authorized")
    ELSE IF ~messages[messageId].exists THEN Revert("Message does not exist")
    ELSE Ok(messages[messageId].encryptedTimestamp)

\* function getEncryptedTimestamp(uint256 messageId) external view returns (euint32)
getEncryptedTimestamp(caller, messageId) ==
    IF ~messages[messageId].exists THEN Revert("Message does not exist")
    ELSE IF ~(messages[messageId].sender = caller) THEN Revert("Not authorized")
    ELSE Ok(messages[messageId].encryptedTimestamp)

\* function getTotalMessages() external view returns (uint256)
getTotalMessages == Ok(totalMessages)

\* Mutant: the exists flag is not looked at.
isMessageOwner_noExists(caller, messageId) ==
    Ok(messages[messageId].sender = caller)

\* function isMessageOwner(uint256 messageId) external view returns (bool)
isMessageOwner(caller, messageId) ==
    Ok(messages[messageId].exists /\ messages[messageId].sender = caller)

(***************************************************************************)
(* Decryption, off the registry: fhevm.userDecryptEuint(type, handle,      *)
(* contractAddress, signer).  The collaborator decrypts a handle of the    *)
(* asked type for a signer when the signer and the contract both hold a    *)
(* grant on it.                                                            *)
(***************************************************************************)
FHE_userDecrypt(type, handle, contract, user) ==
    IF /\ <<handle, user>> \in acl
       /\ <<handle, contract>> \in acl
       /\ handle.type = type
    THEN Ok(handle.value)
    ELSE Revert("Decryption not allowed")

\* The owner's reading of one message, as the tests do it: the handle from
\* the gated read, then the collaborator's decryption of it.
DecryptContent(user, messageId) ==
    LET h == getEncryptedContent(user, messageId)
    IN  IF h.ok THEN FHE_userDecrypt("euint64", h.val, Registry, user) ELSE h

DecryptTimestamp(user, messageId) ==
    LET h == getEncryptedTimestamp(user, messageId)
    IN  IF h.ok THEN FHE_userDecrypt("euint32", h.val, Registry, user) ELSE h

(***************************************************************************)
(* The transactions and calls the ledger can apply.                        *)
(***************************************************************************)
\* What a signer can hand to submitMessage: its own or another signer's
\* encrypted input, as encrypted ("good") or tampered with: the two handles
\* swapped, the timestamp handle taken from another encryption, an input
\* encrypted for another contract, or an uninitialised (zero) content handle.
Shapes == {"good", "swapped", "foreignTimestamp", "otherContract", "zeroContent"}

CallArgs(user, in, shape) ==
    LET contract == IF shape = "otherContract" THEN "other" ELSE Registry
        e == EncryptInput(contract, user, in[1], in[2])
        other == CHOOSE x \in ClearInputs : x # in
        f == EncryptInput(contract, user, other[1], other[2])
    IN  [encryptedContent |-> IF shape = "swapped" THEN e.handles[2]
                              ELSE IF shape = "zeroContent" THEN ZeroHandle
                              ELSE e.handles[1],
         encryptedTimestamp |-> IF shape = "swapped" THEN e.handles[1]
                                ELSE IF shape = "foreignTimestamp" THEN f.handles[2]
                                ELSE e.handles[2],
         inputProof |-> e.inputProof]

SubmitMessage ==
    \E caller \in Signers, user \in Signers, in \in ClearInputs, shape \in Shapes :
        LET args == CallArgs(user, in, shape)
        IN  /\ submitMessage(caller, args.encryptedContent, args.encryptedTimestamp,
                             args.inputProof)
            /\ UNCHANGED home

SubmitMessageMock ==
    \E caller \in Signers, in \in ClearInputs :
        /\ submitMessageMock(caller, in[1], in[2])
        /\ UNCHANGED home

\* Mutant: a read that logs the access (the declared MessageAccessed event).
View_logsAccess(result) ==
    /\ ret' = [kind |-> "call", status |-> Status(result), at |-> ""]
    /\ events' = IF result.ok /\ Len(events) < MaxMessages + 1
                 THEN Append(events, [name |-> "MessageAccessed", messageId |-> 0,
                                      sender |-> ZeroAddress, timestamp |-> 0])
                 ELSE events
    /\ UNCHANGED <<messages, userMessages, totalMessages, acl, now, submissions>>
    /\ UNCHANGED home

\* A call of a view function (eth_call): nothing of the registry, the
\* collaborator or the ledger changes; the caller gets the result.
View(result) ==
    /\ ret' = [kind |-> "call", status |-> Status(result), at |-> ""]
    /\ UNCHANGED <<messages, userMessages, totalMessages, acl, events, now, submissions>>
    /\ UNCHANGED home

GetUserMessages ==
    \E caller \in Address : View(getUserMessages(caller))

GetUserMessageCount ==
    \E user \in Address : View(getUserMessageCount(user))

GetMessageMetadata ==
    \E id \in MessageIds : View(getMessageMetadata(id))

GetEncryptedContent ==
    \E caller \in Address, id \in MessageIds :
        View(getEncryptedContent(caller, id))

GetEncryptedTimestamp ==
    \E caller \in Address, id \in MessageIds :
        View(getEncryptedTimestamp(caller, id))

GetTotalMessages ==
    View(getTotalMessages)

IsMessageOwner ==
    \E caller \in Address, id \in MessageIds :
        View(isMessageOwner(caller, id))

\* A signer reads a handle of its message and has the collaborator decrypt it.
UserDecrypt ==
    \E user \in Signers, id \in MessageIds :
        /\ getEncryptedContent(user, id).ok
        /\ \E r \in {DecryptContent(user, id), DecryptTimestamp(user, id)} :
              ret' = [kind |-> "decrypt", status |-> Status(r), at |-> ""]
        /\ UNCHANGED <<messages, userMessages, totalMessages, acl, events, now, submissions>>
        /\ UNCHANGED home

\* The ledger mines a block: block.timestamp grows.
NewBlock ==
    /\ now < MaxTime
    /\ now' = now + 1
    /\ UNCHANGED <<messages, userMessages, totalMessages, acl, events, submissions, ret>>
    /\ UNCHANGED home

Next ==
    \/ SubmitMessage
    \/ SubmitMessageMock
    \/ GetUserMessages
    \/ GetUserMessageCount
    \/ GetMessageMetadata
    \/ GetEncryptedContent
    \/ GetEncryptedTimestamp
    \/ GetTotalMessages
    \/ IsMessageOwner
    \/ UserDecrypt
    \/ NewBlock

Spec == Init /\ [][Next]_vars

(***************************************************************************)
(* The grants as a layer of their own.  The collaborator keeps the grants  *)
(* and enforces them independently of the registry: here the holder of a   *)
(* grant on a handle has the collaborator give another signer a grant on   *)
(* it, without any call of the registry.                                   *)
(***************************************************************************)
GrantOutsideRegistry ==
    \E g \in acl, a \in Signers :
        /\ g[2] \in Signers
        /\ <<g[1], a>> \notin acl
        /\ acl' = acl \cup {<<g[1], a>>}
        /\ UNCHANGED <<messages, userMessages, totalMessages, events, now,
                       submissions, ret>>
        /\ UNCHANGED home

NextGrants ==
    \/ totalMessages < MaxMessagesWithGrants /\ SubmitMessage
    \/ totalMessages < MaxMessagesWithGrants /\ SubmitMessageMock
    \/ GetEncryptedContent
    \/ GetEncryptedTimestamp
    \/ IsMessageOwner
    \/ UserDecrypt
    \/ GrantOutsideRegistry

SpecGrants == Init /\ [][NextGrants]_vars

(***************************************************************************)
(* The frontend page, app/page.tsx.  Home keeps three pieces of React      *)
(* state (messages, isLoading, localMessageContents) and has three async   *)
(* functions; each runs up to an await in one step, and whatever it awaits *)
(* (an eth_call, the wallet, the ledger) answers in a later step, so the   *)
(* calls in flight interleave.  A function sees the signer and the address *)
(* of the render that created it: a call in flight keeps the account it    *)
(* was started for.                                                        *)
(***************************************************************************)
\* loadMessages calls in flight at once.
MaxLoads == 2
\* decryptMessage calls in flight at once.
MaxDecrypts == 1

ledger == <<messages, userMessages, totalMessages, acl, events, now, submissions, ret>>

\* The Hardhat chain and Sepolia.
ChainIds == {31337, 11155111}

\* const isLocalNetwork = chainId === 31337 || chainId === 1337;
isLocalNetwork == chainId = 31337 \/ chainId = 1337

\* What is typed into the form: the decimal strings of the clear contents,
\* and a string that is not a number.
FormContents == {ToString(in[1]) : in \in ClearInputs} \cup {"abc"}

\* BigInt(content): the number a decimal string denotes, a SyntaxError otherwise.
BigInt(content) ==
    IF \E in \in ClearInputs : ToString(in[1]) = content
    THEN Ok((CHOOSE in \in ClearInputs : ToString(in[1]) = content)[1])
    ELSE Revert("SyntaxError")

\* BigInt(Math.floor(Date.now() / 1000)): the client's clock, here the
\* timestamp the tests pair with the content.
ClientTimestamp(content) ==
    (CHOOSE in \in ClearInputs : ToString(in[1]) = content)[2]

\* s without its i-th element.
RemoveAt(s, i) == [k \in 1..(Len(s) - 1) |-> IF k < i THEN s[k] ELSE s[k + 1]]

(***************************************************************************)
(* loadMessages.                                                           *)
(***************************************************************************)
\* loadMessages as created for account a, up to its first await: the guard,
\* setIsLoading(true), and the getUserMessages call sent.
loadMessages(a) ==
    IF a = NoAccount
    THEN UNCHANGED <<loads, isLoading>>
    ELSE /\ Len(loads) < MaxLoads
         /\ loads' = Append(loads, [account |-> a, stage |-> "ids", ids |-> <<>>])
         /\ isLoading' = TRUE

\* Mutant: a reload keeps the entry of a message that is already listed.
MessagesData_keepsListed(messageIds) ==
    [k \in 1..Len(messageIds) |->
        IF \E j \in 1..Len(homeMessages) : homeMessages[j].id = messageIds[k]
        THEN homeMessages[CHOOSE j \in 1..Len(homeMessages) :
                              homeMessages[j].id = messageIds[k]]
        ELSE [id |-> messageIds[k], content |-> "",
              timestamp |-> getMessageMetadata(messageIds[k]).val[2],
              decrypted |-> FALSE, isDecrypting |-> FALSE]]

\* The loop body: messagesData.push({id, content: "", timestamp:
\* Number(metadata[1]), decrypted: false}); isDecrypting is left undefined,
\* which the list reads as false.
MessagesData(messageIds) ==
    [k \in 1..Len(messageIds) |->
        [id |-> messageIds[k], content |-> "",
         timestamp |-> getMessageMetadata(messageIds[k]).val[2],
         decrypted |-> FALSE, isDecrypting |-> FALSE]]

\* The wallet connects, switches account or disconnects; the effect on
\* [isConnected, contractAddress, loadMessages] runs loadMessages.
AccountsChanged ==
    \E a \in Signers \cup {NoAccount} :
        /\ a # account
        /\ account' = a
        /\ loadMessages(a)
        /\ UNCHANGED <<chainId, homeMessages, localMessageContents, submit, decrypts, toast>>
        /\ UNCHANGED ledger

\* The node answers the getUserMessages call of a load from the storage as
\* it is now: msg.sender is the account of the load's signer.
GetUserMessagesReturned ==
    \E i \in 1..Len(loads) :
        /\ loads[i].stage = "ids"
        /\ loads' = [loads EXCEPT ![i] =
                        [@ EXCEPT !.stage = "metadata",
                                  !.ids = getUserMessages(loads[i].account).val]]
        /\ UNCHANGED <<chainId, account, homeMessages, isLoading,
                       localMessageContents, submit, decrypts, toast>>
        /\ UNCHANGED ledger

\* The answer has reached the page and the getMessageMetadata calls of the
\* load have returned: setMessages, then finally setIsLoading(false).
LoadCompleted ==
    \E i \in 1..Len(loads) :
        /\ loads[i].stage = "metadata"
        /\ homeMessages' = MessagesData(loads[i].ids)
        /\ isLoading' = FALSE
        /\ loads' = RemoveAt(loads, i)
        /\ UNCHANGED <<chainId, account, localMessageContents, submit, decrypts, toast>>
        /\ UNCHANGED ledger

\* A call of a load throws: catch (console.error), then finally
\* setIsLoading(false).
LoadFailed ==
    \E i \in 1..Len(loads) :
        /\ isLoading' = FALSE
        /\ loads' = RemoveAt(loads, i)
        /\ UNCHANGED <<chainId, account, homeMessages, localMessageContents,
                       submit, decrypts, toast>>
        /\ UNCHANGED ledger

(***************************************************************************)
(* submitMessage(content).                                                 *)
(***************************************************************************)
\* The call up to the wallet prompt: the two guards before the try, then
\* BigInt(content) and, off the local chain, the encryption of the input.
SubmitCalled ==
    \E content \in FormContents, fhevm \in {"ready", "notInitialized", "encryptThrows"} :
        /\ submit.stage = "idle"
        /\ submit' =
              IF account = NoAccount THEN Idle("thrown")
              ELSE IF ~isLocalNetwork /\ fhevm = "notInitialized" THEN Idle("thrown")
              ELSE IF ~BigInt(content).ok THEN Idle("rethrown")
              ELSE IF ~isLocalNetwork /\ fhevm = "encryptThrows" THEN Idle("rethrown")
              ELSE [stage |-> "wallet", account |-> account, content |-> content,
                    messageId |-> -1, result |-> "none"]
        /\ UNCHANGED <<chainId, account, homeMessages, isLoading,
                       localMessageContents, loads, decrypts, toast>>
        /\ UNCHANGED ledger

\* The user rejects the transaction in the wallet: the await throws.
WalletRejected ==
    /\ submit.stage = "wallet"
    /\ submit' = Idle("rethrown")
    /\ UNCHANGED <<chainId, account, homeMessages, isLoading,
                   localMessageContents, loads, decrypts, toast>>
    /\ UNCHANGED ledger

\* Mutant: the list is reloaded as soon as the transaction is sent.
WalletConfirmed_reloads ==
    /\ submit.stage = "wallet"
    /\ submit' = [submit EXCEPT !.stage = "sent"]
    /\ loadMessages(submit.account)
    /\ UNCHANGED <<chainId, account, homeMessages, localMessageContents, decrypts, toast>>
    /\ UNCHANGED ledger

\* The user confirms: the transaction is sent, tx.wait() is awaited.
WalletConfirmed ==
    /\ submit.stage = "wallet"
    /\ submit' = [submit EXCEPT !.stage = "sent"]
    /\ UNCHANGED <<chainId, account, homeMessages, isLoading,
                   localMessageContents, loads, decrypts, toast>>
    /\ UNCHANGED ledger

\* The ledger applies the transaction: submitMessageMock(numContent,
\* timestamp) on the local chain, submitMessage(handle0, handle1, inputProof)
\* with the input encrypted for (contractAddress, address) elsewhere.
TxMined ==
    /\ submit.stage = "sent"
    /\ LET c == BigInt(submit.content).val
           t == ClientTimestamp(submit.content)
           e == EncryptInput(Registry, submit.account, c, t)
       IN  IF isLocalNetwork
           THEN submitMessageMock(submit.account, c, t)
           ELSE submitMessage(submit.account, e.handles[1], e.handles[2], e.inputProof)
    /\ submit' = [submit EXCEPT !.stage = "mined",
                                !.messageId = events'[Len(events')].messageId]
    /\ UNCHANGED <<chainId, account, homeMessages, isLoading,
                   localMessageContents, loads, decrypts, toast>>

\* The transaction reverts: tx.wait() throws.
TxReverted ==
    /\ submit.stage = "sent"
    /\ submit' = Idle("rethrown")
    /\ UNCHANGED <<chainId, account, homeMessages, isLoading,
                   localMessageContents, loads, decrypts, toast>>
    /\ UNCHANGED ledger

\* tx.wait() resolves.  On the local chain the plaintext is stored under the
\* id of the MessageSubmitted event; on both paths loadMessages is called.
WaitResolved ==
    /\ submit.stage = "mined"
    /\ localMessageContents' =
          IF isLocalNetwork
          THEN (submit.messageId :> submit.content) @@ localMessageContents
          ELSE localMessageContents
    /\ loadMessages(submit.account)
    /\ submit' = Idle("ok")
    /\ UNCHANGED <<chainId, account, homeMessages, decrypts, toast>>
    /\ UNCHANGED ledger

(***************************************************************************)
(* decryptMessage(messageId).                                              *)
(***************************************************************************)
\* setMessages(prev => prev.map(msg => msg.id === messageId ? f(msg) : msg))
MapMessage(prev, messageId, content, decrypted, isDecrypting) ==
    [k \in 1..Len(prev) |->
        IF prev[k].id = messageId
        THEN [prev[k] EXCEPT !.content = IF decrypted THEN content ELSE @,
                             !.decrypted = IF decrypted THEN TRUE ELSE @,
                             !.isDecrypting = isDecrypting]
        ELSE prev[k]]

\* localMessageContents[messageId], as the render of the call sees it.
StoredContent(messageId) ==
    IF messageId \in DOMAIN localMessageContents
    THEN [cached |-> TRUE, content |-> localMessageContents[messageId]]
    ELSE [cached |-> FALSE, content |-> ""]

\* The text shown for a decrypted message.
DecryptedContent(messageId, stored) ==
    IF isLocalNetwork
    THEN IF stored.cached /\ stored.content # ""
         THEN stored.content
         ELSE "[Message #" \o ToString(messageId) \o " - content not cached]"
    ELSE "[Decryption not implemented for production]"

\* Mutant: without a signer the message is still marked isDecrypting.
decryptMessage_marksWithoutSigner(messageId) ==
    IF account = NoAccount
    THEN /\ toast' = "Wallet Not Connected"
         /\ homeMessages' = MapMessage(homeMessages, messageId, "", FALSE, TRUE)
         /\ UNCHANGED decrypts
    ELSE /\ Len(decrypts) < MaxDecrypts
         /\ homeMessages' = MapMessage(homeMessages, messageId, "", FALSE, TRUE)
         /\ toast' = "Wallet Authentication"
         /\ decrypts' = Append(decrypts, [messageId |-> messageId,
                                          stored |-> StoredContent(messageId)])

\* decryptMessage(messageId) up to its first await.  Without a signer: the
\* "Wallet Not Connected" toast and return.  With one: the message is marked
\* isDecrypting, the "Wallet Authentication" toast, and signMessage is
\* awaited; the call keeps the localMessageContents of its render.
decryptMessage(messageId) ==
    IF account = NoAccount
    THEN /\ toast' = "Wallet Not Connected"
         /\ UNCHANGED <<homeMessages, decrypts>>
    ELSE /\ Len(decrypts) < MaxDecrypts
         /\ homeMessages' = MapMessage(homeMessages, messageId, "", FALSE, TRUE)
         /\ toast' = "Wallet Authentication"
         /\ decrypts' = Append(decrypts, [messageId |-> messageId,
                                          stored |-> StoredContent(messageId)])

\* The Decrypt button of a listed message is pressed: the list shows it while
\* the message is not decrypted and enables it while it is not decrypting.
\* The list hides itself on wagmi's isConnected, the page takes its signer
\* from useMetaMaskEthersSigner: the button can be pressed without a signer.
DecryptCalled ==
    \E k \in 1..Len(homeMessages) :
        /\ ~homeMessages[k].decrypted
        /\ ~homeMessages[k].isDecrypting
        /\ decryptMessage(homeMessages[k].id)
        /\ UNCHANGED <<chainId, account, isLoading, localMessageContents, loads, submit>>
        /\ UNCHANGED ledger

\* signMessage resolves (off the local chain the 1.5 s timer then runs out):
\* the message, if still listed, becomes decrypted and shows the content;
\* the "Message Decrypted" toast.
SignResolved ==
    \E j \in 1..Len(decrypts) :
        /\ homeMessages' = MapMessage(homeMessages, decrypts[j].messageId,
                              DecryptedContent(decrypts[j].messageId, decrypts[j].stored),
                              TRUE, FALSE)
        /\ decrypts' = RemoveAt(decrypts, j)
        /\ toast' = "Message Decrypted"
        /\ UNCHANGED <<chainId, account, isLoading, localMessageContents, loads, submit>>
        /\ UNCHANGED ledger

\* Mutant: the catch leaves the message marked isDecrypting.
SignRejected_leavesDecrypting ==
    \E j \in 1..Len(decrypts) :
        /\ homeMessages' = homeMessages
        /\ decrypts' = RemoveAt(decrypts, j)
        /\ toast' = "Decryption Failed"
        /\ UNCHANGED <<chainId, account, isLoading, localMessageContents, loads, submit>>
        /\ UNCHANGED ledger

\* signMessage is rejected or throws: the catch clears isDecrypting; the
\* "Decryption Failed" toast.
SignRejected ==
    \E j \in 1..Len(decrypts) :
        /\ homeMessages' = MapMessage(homeMessages, decrypts[j].messageId, "", FALSE, FALSE)
        /\ decrypts' = RemoveAt(decrypts, j)
        /\ toast' = "Decryption Failed"
        /\ UNCHANGED <<chainId, account, isLoading, localMessageContents, loads, submit>>
        /\ UNCHANGED ledger

(***************************************************************************)
(* The page submitting.  One account connects; it submits through the      *)
(* form, on the Hardhat chain or on Sepolia; the loads started by the      *)
(* connection and by the submissions overlap and complete without error.   *)
(***************************************************************************)
\* Submissions are started while _totalMessages is below this.
MaxPageMessages == 1

InitHome ==
    /\ RegistryInit
    /\ HomeInit
    /\ chainId \in ChainIds

NextSubmit ==
    \/ account = NoAccount /\ AccountsChanged
    \/ totalMessages < MaxPageMessages /\ SubmitCalled
    \/ WalletRejected
    \/ WalletConfirmed
    \/ TxMined
    \/ TxReverted
    \/ WaitResolved
    \/ GetUserMessagesReturned
    \/ LoadCompleted

SpecSubmit == InitHome /\ [][NextSubmit]_vars

(***************************************************************************)
(* The page loading and decrypting, on the Hardhat chain.  The wallet      *)
(* connects, switches account and disconnects; the signers submit from     *)
(* another client (the Hardhat tests and tasks), each transaction in a     *)
(* block of its own; loads complete or fail; listed messages are           *)
(* decrypted.                                                              *)
(***************************************************************************)
\* Loads in flight at once where messages are also decrypted.
MaxLoadsWithDecrypts == 1

\* The first input of the tests, submitted by either signer.
SubmitElsewhere ==
    \E caller \in Signers :
        LET in == CHOOSE x \in ClearInputs : \A y \in ClearInputs : x[1] <= y[1]
        IN  /\ now = totalMessages + 1
            /\ submitMessageMock(caller, in[1], in[2])
            /\ UNCHANGED home

NextLoad ==
    \/ Len(loads) < MaxLoadsWithDecrypts /\ AccountsChanged
    \/ GetUserMessagesReturned
    \/ LoadCompleted
    \/ LoadFailed
    \/ DecryptCalled
    \/ SignResolved
    \/ SignRejected
    \/ SubmitElsewhere
    \/ now = totalMessages /\ NewBlock

SpecLoad == Init /\ [][NextLoad]_vars

(***************************************************************************)
(* What the history says of an id: the k-th accepted submission is         *)
(* submissions[k]; an id is assigned when some accepted submission got it. *)
(***************************************************************************)
Assigned == 0..(Len(submissions) - 1)
Unassigned == MessageIds \ Assigned
SubmissionOf(id) == submissions[id + 1]
SubmittedBy(u) == {id \in Assigned : SubmissionOf(id).caller = u}

\* The ids of a set, in increasing order.
RECURSIVE Ascending(_)
Ascending(S) ==
    IF S = {} THEN <<>>
    ELSE LET m == CHOOSE x \in S : \A y \in S : y <= x
         IN  Append(Ascending(S \ {m}), m)

(***************************************************************************)
(* C1  getEncryptedContent(id) and getEncryptedTimestamp(id) on a stored   *)
(* message succeed for the caller that submitted it and for no one else:   *)
(* every other caller (the zero address, the registry, the deployer, a     *)
(* signer that owns other messages) gets "Not authorized".                 *)
(***************************************************************************)
C1_OnlySenderReads ==
    \A id \in Assigned, caller \in Address :
        LET c == getEncryptedContent(caller, id)
            t == getEncryptedTimestamp(caller, id)
        IN  IF caller = SubmissionOf(id).caller
            THEN c.ok /\ t.ok
            ELSE c = Revert("Not authorized") /\ t = Revert("Not authorized")

\* A gated read has just been refused to a signer that owns another message.
C1_Witness ==
    /\ ret = [kind |-> "call", status |-> "Not authorized", at |-> ""]
    /\ \E id \in Assigned, other \in Assigned :
          /\ SubmissionOf(id).caller # SubmissionOf(other).caller
          /\ ~getEncryptedContent(SubmissionOf(other).caller, id).ok

(***************************************************************************)
(* C2  On an id that was never assigned both gated reads revert with       *)
(* "Message does not exist" for every caller, the zero address (the        *)
(* default sender of an absent record) included: the existence check       *)
(* comes before the ownership check.                                       *)
(***************************************************************************)
C2_AbsentIsNotFound ==
    \A id \in Unassigned, caller \in Address :
        /\ getEncryptedContent(caller, id) = Revert("Message does not exist")
        /\ getEncryptedTimestamp(caller, id) = Revert("Message does not exist")

\* A gated read of an absent id has just reverted while another id is stored.
C2_Witness ==
    /\ ret = [kind |-> "call", status |-> "Message does not exist", at |-> ""]
    /\ Assigned # {}
    /\ getEncryptedContent(ZeroAddress, Len(submissions)).err = "Message does not exist"

(***************************************************************************)
(* C3  The k-th accepted submission gets id k-1: its creation event        *)
(* carries that id and the message stored under that id is the one it      *)
(* submitted; getTotalMessages is the number of accepted submissions.      *)
(***************************************************************************)
C3_SequentialIds ==
    /\ getTotalMessages = Ok(Len(submissions))
    /\ Len(events) = Len(submissions)
    /\ \A k \in 1..Len(submissions) :
          /\ events[k].messageId = k - 1
          /\ events[k].sender = submissions[k].caller
          /\ messages[k - 1].exists
          /\ messages[k - 1].sender = submissions[k].caller
          /\ messages[k - 1].encryptedContent = submissions[k].content

\* Two submissions by different signers have been accepted.
C3_Witness ==
    /\ Len(submissions) = 2
    /\ submissions[1].caller # submissions[2].caller
    /\ getTotalMessages.val = 2

(***************************************************************************)
(* C4  A message id exists if and only if it is below the total: the total *)
(* is the number of stored messages, the stored ids have no gap, and the   *)
(* record under an id is the one its own submission stored (a later        *)
(* submission neither reuses the id nor overwrites the record).            *)
(***************************************************************************)
C4_ExistsIffBelowTotal ==
    /\ \A id \in MessageIds : getMessageMetadata(id).val[3] <=> id < getTotalMessages.val
    /\ Cardinality({id \in MessageIds : messages[id].exists}) = totalMessages
    /\ totalMessages = Len(submissions)
    /\ \A id \in Assigned :
          LET sub == SubmissionOf(id)
          IN  messages[id] = [sender |-> sub.caller, encryptedContent |-> sub.content,
                              encryptedTimestamp |-> sub.timestamp,
                              createdAt |-> sub.time, exists |-> TRUE]
    /\ \A id \in Unassigned : messages[id] = DefaultMessage

\* One id is stored and the next is absent.
C4_Witness ==
    /\ totalMessages = 1
    /\ messages[0].exists
    /\ ~messages[1].exists

(***************************************************************************)
(* C5  getUserMessages called by u returns the ids of the messages u       *)
(* submitted, each once, in increasing order; right after an accepted      *)
(* submission the last id of its sender's list is the id just assigned.    *)
(***************************************************************************)
C5_UserMessagesAreOwn ==
    /\ \A u \in Address : getUserMessages(u) = Ok(Ascending(SubmittedBy(u)))
    /\ \A u \in Address : \A i \in 1..Len(userMessages[u]) :
          /\ messages[userMessages[u][i]].exists
          /\ messages[userMessages[u][i]].sender = u
    /\ (ret.kind = "tx" /\ ret.status = "ok") =>
          LET u == submissions[Len(submissions)].caller
              l == getUserMessages(u).val
          IN  l[Len(l)] = Len(submissions) - 1

\* A signer's second submission has just been accepted.
C5_Witness ==
    /\ ret.kind = "tx" /\ ret.status = "ok"
    /\ \E u \in Signers : getUserMessages(u).val = <<0, 1>>

(***************************************************************************)
(* C6  getUserMessageCount(u) is the number of accepted submissions by u   *)
(* and the length of u's getUserMessages; 0 for one that never submitted.  *)
(***************************************************************************)
C6_CountIsOwnSubmissions ==
    \A u \in Address :
        /\ getUserMessageCount(u) = Ok(Cardinality(SubmittedBy(u)))
        /\ getUserMessageCount(u).val = Len(getUserMessages(u).val)

\* One signer has submitted and another has not.
C6_Witness ==
    \E u \in Signers, v \in Signers :
        /\ getUserMessageCount(u).val = 1
        /\ getUserMessageCount(v).val = 0
        /\ totalMessages = 1

(***************************************************************************)
(* C7  isMessageOwner(id) called by u never reverts and returns true if    *)
(* and only if id was assigned and u submitted it; for an id never         *)
(* assigned it returns false, to the zero address too.                     *)
(***************************************************************************)
C7_OwnerIffSubmitted ==
    \A id \in MessageIds, u \in Address :
        isMessageOwner(u, id) = Ok(id \in Assigned /\ SubmissionOf(id).caller = u)

\* One id has an owner, another is absent.
C7_Witness ==
    /\ \E u \in Signers : isMessageOwner(u, 0).val /\ ~isMessageOwner(u, 1).val
    /\ ~isMessageOwner(ZeroAddress, 1).val
    /\ Unassigned # {} /\ 1 \in Unassigned
    /\ ret.kind = "call"

(***************************************************************************)
(* C8  For the sender of a stored message the gated reads return the       *)
(* content handle and the timestamp handle its own submission imported     *)
(* (not the other field's handle, not the zero handle), whatever was       *)
(* submitted before or after.                                              *)
(***************************************************************************)
C8_ReadsReturnOwnHandles ==
    \A id \in Assigned :
        LET sub == SubmissionOf(id)
        IN  /\ getEncryptedContent(sub.caller, id) = Ok(sub.content)
            /\ getEncryptedTimestamp(sub.caller, id) = Ok(sub.timestamp)
            /\ sub.content # ZeroHandle
            /\ sub.timestamp # ZeroHandle

\* Two messages with different handles are stored and a read has succeeded.
C8_Witness ==
    /\ Len(submissions) = 2
    /\ submissions[1].content # submissions[2].content
    /\ submissions[1].caller # submissions[2].caller
    /\ ret = [kind |-> "call", status |-> "ok", at |-> ""]

(***************************************************************************)
(* C9  A submitMessage whose content handle or timestamp handle the        *)
(* collaborator rejects reverts with ProofInvalid and changes nothing: the *)
(* messages, the owner lists, the total, the grants and the event log are  *)
(* as before (so the next accepted submission gets the id it would have    *)
(* got).                                                                   *)
(***************************************************************************)
C9_RejectedChangesNothing ==
    /\ [](\A k \in 1..Len(submissions) :
            LET sub == submissions[k]
            IN  sub.op = "submitMessage" =>
                  /\ FHE_verify(sub.external[1], sub.external[3], "euint64", sub.caller)
                  /\ FHE_verify(sub.external[2], sub.external[3], "euint32", sub.caller))
    /\ [][(ret'.kind = "tx" /\ ret'.status # "ok") =>
            /\ ret'.status = "ProofInvalid"
            /\ UNCHANGED <<messages, userMessages, totalMessages, acl, events,
                           submissions>>]_vars

\* A submission was rejected at the timestamp handle after one was accepted.
C9_Witness ==
    /\ ret = [kind |-> "tx", status |-> "ProofInvalid", at |-> "timestamp"]
    /\ totalMessages = 1

(***************************************************************************)
(* C10  For every stored message the sender and the registry hold a grant  *)
(* of the collaborator on both stored handles.                             *)
(***************************************************************************)
C10_SenderAndRegistryGranted ==
    \A id \in Assigned :
        LET m == messages[id]
        IN  /\ m.sender = SubmissionOf(id).caller
            /\ {<<m.encryptedContent, m.sender>>, <<m.encryptedContent, Registry>>,
                <<m.encryptedTimestamp, m.sender>>, <<m.encryptedTimestamp, Registry>>}
                  \subseteq acl

\* Two signers have each a stored message.
C10_Witness ==
    /\ Len(submissions) = 2
    /\ messages[0].sender # messages[1].sender
    /\ <<messages[1].encryptedTimestamp, messages[1].sender>> \in acl

(***************************************************************************)
(* C11  Round trip: when a signer has submitted its encryption of content  *)
(* C and timestamp T (or C and T themselves on the mock path), its gated   *)
(* reads of that id followed by the collaborator's decryption give back    *)
(* exactly C and T, whatever else was submitted by anyone.                 *)
(***************************************************************************)
C11_RoundTrip ==
    \A id \in Assigned :
        LET sub == SubmissionOf(id)
        IN  /\ \A user \in Signers, in \in ClearInputs :
                 LET e == EncryptInput(Registry, user, in[1], in[2])
                 IN  (/\ sub.op = "submitMessage"
                      /\ sub.caller = user
                      /\ sub.external = <<e.handles[1], e.handles[2], e.inputProof>>)
                     => /\ DecryptContent(user, id) = Ok(in[1])
                        /\ DecryptTimestamp(user, id) = Ok(in[2])
            /\ sub.op = "submitMessageMock"
                 => /\ DecryptContent(sub.caller, id) = Ok(sub.external[1])
                    /\ DecryptTimestamp(sub.caller, id) = Ok(sub.external[2])

\* A signer has decrypted after two signers submitted different encrypted inputs.
C11_Witness ==
    /\ ret = [kind |-> "decrypt", status |-> "ok", at |-> ""]
    /\ Len(submissions) = 2
    /\ submissions[1].op = "submitMessage" /\ submissions[2].op = "submitMessage"
    /\ submissions[1].caller # submissions[2].caller
    /\ DecryptContent(submissions[1].caller, 0).val # DecryptContent(submissions[2].caller, 1).val

(***************************************************************************)
(* C12  A stored message never changes: in every step, a message that      *)
(* exists keeps its sender, createdAt, both handles and its exists flag,   *)
(* whoever does whatever next.                                             *)
(***************************************************************************)
C12_StoredIsImmutable ==
    [][\A id \in MessageIds :
          messages[id].exists =>
              /\ messages'[id].exists
              /\ messages'[id].sender = messages[id].sender
              /\ messages'[id].createdAt = messages[id].createdAt
              /\ messages'[id].encryptedContent = messages[id].encryptedContent
              /\ messages'[id].encryptedTimestamp = messages[id].encryptedTimestamp]_vars

\* A message stored at time 1 is still as submitted after the other signer
\* submitted at time 2.
C12_Witness ==
    /\ Len(submissions) = 2
    /\ submissions[1].caller # submissions[2].caller
    /\ submissions[1].time = 1 /\ submissions[2].time = 2
    /\ messages[0].sender = submissions[1].caller
    /\ messages[0].createdAt = 1
    /\ messages[0].encryptedContent = submissions[1].content

(***************************************************************************)
(* C13  The registry is create-only: in every step the total does not      *)
(* decrease, no stored id becomes absent, and every identity's list of ids *)
(* before the step is a prefix of its list after the step.                 *)
(***************************************************************************)
C13_CreateOnly ==
    [][/\ totalMessages' >= totalMessages
       /\ \A id \in MessageIds : messages[id].exists => messages'[id].exists
       /\ \A u \in Address :
             /\ Len(userMessages'[u]) >= Len(userMessages[u])
             /\ SubSeq(userMessages'[u], 1, Len(userMessages[u])) = userMessages[u]]_vars

\* A signer with one id in its list has got a second one.
C13_Witness ==
    /\ totalMessages = 2
    /\ \E u \in Signers : Len(userMessages[u]) = 2 /\ userMessages[u][1] = 0
    /\ ret = [kind |-> "tx", status |-> "ok", at |-> ""]

(***************************************************************************)
(* C14  getMessageMetadata(id) never reverts, whoever calls it: for a      *)
(* stored id it returns the submitting identity, the block time of the     *)
(* submission and true; for an id never assigned it returns the zero       *)
(* address, 0 and false.                                                   *)
(***************************************************************************)
C14_MetadataLookup ==
    /\ \A id \in Assigned :
          getMessageMetadata(id) =
              Ok(<<SubmissionOf(id).caller, SubmissionOf(id).time, TRUE>>)
    /\ \A id \in Unassigned : getMessageMetadata(id) = Ok(<<ZeroAddress, 0, FALSE>>)

\* A view returned while a message submitted at time 1 is stored, the block
\* time is 2 and another id is absent.
C14_Witness ==
    /\ ret = [kind |-> "call", status |-> "ok", at |-> ""]
    /\ totalMessages = 1
    /\ now = 2
    /\ getMessageMetadata(0).val[2] = 1
    /\ ~getMessageMetadata(1).val[3]

ListedIds(u) == {userMessages[u][i] : i \in 1..Len(userMessages[u])}

C17_UsersIndependent ==
    /\ [](\A u \in Address, v \in Address : u # v => ListedIds(u) \cap ListedIds(v) = {})
    /\ [][Len(submissions') > Len(submissions) =>
            LET A == submissions'[Len(submissions')].caller
            IN  \A B \in Address \ {A} :
                    /\ userMessages'[B] = userMessages[B]
                    /\ Len(userMessages'[B]) = Len(userMessages[B])
                    /\ \A id \in MessageIds :
                          (messages[id].exists /\ messages[id].sender = B)
                              => messages'[id] = messages[id]]_vars

\* A has id 0, B has id 1 and the total is 2.
C17_Witness ==
    /\ \E A \in Signers, B \in Signers :
          /\ A # B
          /\ getUserMessages(A).val = <<0>>
          /\ getUserMessages(B).val = <<1>>
    /\ getTotalMessages.val = 2

(***************************************************************************)
(* C18  isMessageOwner predicts the gated reads: for every id and caller   *)
(* it returns true exactly when getEncryptedContent succeeds and exactly   *)
(* when getEncryptedTimestamp succeeds, and the two gated reads fail       *)
(* together with the same reason.                                          *)
(***************************************************************************)
C18_OwnerPredictsReads ==
    \A id \in MessageIds, caller \in Address :
        LET o == isMessageOwner(caller, id)
            c == getEncryptedContent(caller, id)
            t == getEncryptedTimestamp(caller, id)
        IN  /\ o.ok
            /\ o.val <=> c.ok
            /\ o.val <=> t.ok
            /\ c.ok <=> t.ok
            /\ c.err = t.err

\* One state shows the three outcomes: an owner, a non-owner and an absent id.
C18_Witness ==
    /\ ret.kind = "call"
    /\ \E id \in MessageIds, a \in Signers, b \in Signers :
          /\ isMessageOwner(a, id).val /\ getEncryptedContent(a, id).ok
          /\ ~isMessageOwner(b, id).val
          /\ getEncryptedTimestamp(b, id).err = "Not authorized"
    /\ \E id \in MessageIds :
          /\ ~isMessageOwner(ZeroAddress, id).val
          /\ getEncryptedContent(ZeroAddress, id).err = "Message does not exist"

(***************************************************************************)
(* C19  The outcome of a gated read (returned handle, "Message does not    *)
(* exist" or "Not authorized") depends on the message table and the caller *)
(* only: a step that changes the collaborator's grants and not the         *)
(* messages changes the outcome for no id and no caller.                   *)
(***************************************************************************)
C19_ReadsIgnoreGrants ==
    [][messages' = messages =>
          \A id \in MessageIds, caller \in Address :
              /\ getEncryptedContent(caller, id)' = getEncryptedContent(caller, id)
              /\ getEncryptedTimestamp(caller, id)' = getEncryptedTimestamp(caller, id)]_vars

\* A signer that is not the sender holds a grant on a stored content handle,
\* can decrypt it at the collaborator, and is still refused by the registry.
C19_Witness ==
    \E id \in MessageIds, a \in Signers :
        /\ messages[id].exists
        /\ messages[id].sender # a
        /\ <<messages[id].encryptedContent, a>> \in acl
        /\ FHE_userDecrypt("euint64", messages[id].encryptedContent, Registry, a).ok
        /\ getEncryptedContent(a, id) = Revert("Not authorized")

(***************************************************************************)
(* C20  submitMessage is the only entry point that changes state: every    *)
(* stored message was created by a submitMessage call whose two handles    *)
(* and proof the FHE library accepted.  The contract also exposes          *)
(* submitMessageMock, which stores a message with no import at all, so     *)
(* the statement does not hold of the code.                                *)
(***************************************************************************)
C20_OnlyValidatedSubmits ==
    \A id \in MessageIds :
        messages[id].exists =>
            /\ id \in Assigned
            /\ SubmissionOf(id).op = "submitMessage"
            /\ ImportVerdict(SubmissionOf(id).caller,
                             SubmissionOf(id).external[1],
                             SubmissionOf(id).external[2],
                             SubmissionOf(id).external[3]) = "accepted"

(***************************************************************************)
(* C21  submitMessageMock does the bookkeeping of submitMessage: whichever *)
(* of the two made the k-th accepted submission, it got id k-1 from the    *)
(* one counter, the record under that id has its caller, its handles, the  *)
(* block time and exists, the id is in the caller's list, the caller and   *)
(* the registry hold grants on both handles and the k-th event is its      *)
(* MessageSubmitted.  The two differ in the handles only: the mock path    *)
(* stores the trivial encryptions of its plaintext arguments, the other    *)
(* the imported external handles; and the mock path, importing nothing,    *)
(* succeeds for every caller and every argument.                           *)
(***************************************************************************)
C21_MockSameBookkeeping ==
    /\ totalMessages = Len(submissions)
    /\ \A k \in 1..Len(submissions) :
          LET s == submissions[k]
              id == k - 1
          IN  /\ messages[id] = [sender |-> s.caller, encryptedContent |-> s.content,
                                 encryptedTimestamp |-> s.timestamp,
                                 createdAt |-> s.time, exists |-> TRUE]
              /\ id \in ListedIds(s.caller)
              /\ {<<s.content, s.caller>>, <<s.content, Registry>>,
                  <<s.timestamp, s.caller>>, <<s.timestamp, Registry>>} \subseteq acl
              /\ events[k] = [name |-> "MessageSubmitted", messageId |-> id,
                              sender |-> s.caller, timestamp |-> s.time]
              /\ IF s.op = "submitMessageMock"
                 THEN /\ s.content = FHE_asEuint("euint64", s.external[1])
                      /\ s.timestamp = FHE_asEuint("euint32", s.external[2])
                 ELSE /\ s.content = s.external[1]
                      /\ s.timestamp = s.external[2]
    /\ totalMessages < MaxMessages =>
          \A caller \in Signers, in \in ClearInputs :
              ENABLED (submitMessageMock(caller, in[1], in[2]) /\ ret'.status = "ok")

\* A signer has submitted once on each path, the mock path first.
C21_Witness ==
    /\ Len(submissions) = 2
    /\ submissions[1].op = "submitMessageMock"
    /\ submissions[2].op = "submitMessage"
    /\ submissions[1].caller = submissions[2].caller
    /\ userMessages[submissions[1].caller] = <<0, 1>>

(***************************************************************************)
(* C22  Submissions of several signers are applied one at a time, each as  *)
(* one step, in some order.  In every state a call can observe, the        *)
(* counter, the message table and the owner index agree: the stored ids    *)
(* are exactly those below getTotalMessages, each is in the list of its    *)
(* sender exactly once and in no other list, and the lists together hold   *)
(* getTotalMessages entries.  No two submissions got the same id and none  *)
(* was lost: the k-th accepted submission is stored under id k-1.          *)
(***************************************************************************)
IndexEntries ==
    UNION {{<<u, i>> : i \in 1..Len(userMessages[u])} : u \in Address}

C22_AtomicSubmits ==
    /\ \A id \in MessageIds :
          LET m == getMessageMetadata(id).val
          IN  /\ m[3] <=> id < getTotalMessages.val
              /\ \A u \in Address :
                    Cardinality({i \in 1..Len(getUserMessages(u).val) :
                                     getUserMessages(u).val[i] = id})
                        = IF m[3] /\ m[1] = u THEN 1 ELSE 0
    /\ Cardinality(IndexEntries) = getTotalMessages.val
    /\ \A u \in Address : getUserMessageCount(u).val = Len(getUserMessages(u).val)
    /\ \A j \in 1..Len(events), k \in 1..Len(events) :
          j # k => events[j].messageId # events[k].messageId
    /\ Len(submissions) = getTotalMessages.val
    /\ \A k \in 1..Len(submissions) :
          /\ getMessageMetadata(k - 1).val[1] = submissions[k].caller
          /\ getEncryptedContent(submissions[k].caller, k - 1) = Ok(submissions[k].content)

\* Both signers have submitted in the same block and a call has just read.
C22_Witness ==
    /\ ret.kind = "call"
    /\ Len(submissions) = 2
    /\ submissions[1].caller # submissions[2].caller
    /\ submissions[1].time = submissions[2].time
    /\ submissions[1].op = "submitMessage"
    /\ submissions[2].op = "submitMessage"

(***************************************************************************)
(* C23  After deployment, until a submission is accepted, the registry is  *)
(* empty: getTotalMessages is 0, every id has the default metadata         *)
(* (address(0), 0, false), isMessageOwner is false and both gated reads    *)
(* revert with "Message does not exist" for every caller, and every        *)
(* identity has the empty list and the count 0.                            *)
(***************************************************************************)
C23_EmptyAfterDeployment ==
    submissions = <<>> =>
        /\ getTotalMessages = Ok(0)
        /\ \A id \in MessageIds :
              /\ getMessageMetadata(id) = Ok(<<ZeroAddress, 0, FALSE>>)
              /\ \A caller \in Address :
                    /\ isMessageOwner(caller, id) = Ok(FALSE)
                    /\ getEncryptedContent(caller, id) = Revert("Message does not exist")
                    /\ getEncryptedTimestamp(caller, id) = Revert("Message does not exist")
        /\ \A u \in Address :
              /\ getUserMessages(u) = Ok(<<>>)
              /\ getUserMessageCount(u) = Ok(0)
        /\ events = <<>>

\* The first call after the constructor, in the block of the deployment, has
\* found the absent message 0.
C23_Witness ==
    /\ ret = [kind |-> "call", status |-> "Message does not exist", at |-> ""]
    /\ submissions = <<>>
    /\ getTotalMessages.val = 0
    /\ now = 1

(***************************************************************************)
(* C24  Every successful getEncryptedContent or getEncryptedTimestamp      *)
(* call appends to the log a MessageAccessed event with the id read and    *)
(* the caller.  The contract declares the event and emits it nowhere, and  *)
(* the two functions are views, so the statement does not hold of the      *)
(* code.                                                                   *)
(***************************************************************************)
MessageAccessed(messageId, accessor) ==
    [name |-> "MessageAccessed", messageId |-> messageId,
     sender |-> accessor, timestamp |-> 0]

C24_AccessIsLogged ==
    [][\A caller \in Address, id \in MessageIds :
          /\ (getEncryptedContent(caller, id).ok /\ View(getEncryptedContent(caller, id)))
                => events' = Append(events, MessageAccessed(id, caller))
          /\ (getEncryptedTimestamp(caller, id).ok /\ View(getEncryptedTimestamp(caller, id)))
                => events' = Append(events, MessageAccessed(id, caller))]_vars

(***************************************************************************)
(* C25  The grants the registry has requested on the two handles of a      *)
(* stored message are held by the message's sender and by the registry and *)
(* by no one else, whichever path stored it.  On the mock path the handle  *)
(* is the trivial encryption of the plaintext, the same for every caller:  *)
(* a second signer submitting the same plaintext gets a grant on the       *)
(* handle of the first signer's message, so the statement does not hold    *)
(* of the code.                                                            *)
(***************************************************************************)
Grantees(handle) == {a \in Address : <<handle, a>> \in acl}

C25_OnlySenderAndRegistryGranted ==
    \A id \in MessageIds :
        messages[id].exists =>
            /\ Grantees(messages[id].encryptedContent) = {messages[id].sender, Registry}
            /\ Grantees(messages[id].encryptedTimestamp) = {messages[id].sender, Registry}

(***************************************************************************)
(* C26  block.timestamp never decreasing, createdAt does not decrease with *)
(* the id: of two stored messages the one with the smaller id was created  *)
(* no later; and each MessageSubmitted event carries the createdAt stored  *)
(* under its id.                                                           *)
(***************************************************************************)
C26_CreatedAtMonotonic ==
    /\ \A i \in MessageIds, j \in MessageIds :
          (i < j /\ getMessageMetadata(i).val[3] /\ getMessageMetadata(j).val[3])
              => getMessageMetadata(i).val[2] <= getMessageMetadata(j).val[2]
    /\ \A k \in 1..Len(events) :
          /\ events[k].timestamp = getMessageMetadata(events[k].messageId).val[2]
          /\ events[k].timestamp <= now

\* Two messages stored in different blocks, the second by the client whose
\* clear timestamp is the smaller one.
C26_Witness ==
    /\ totalMessages = 2
    /\ messages[0].createdAt < messages[1].createdAt
    /\ messages[0].encryptedTimestamp.value > messages[1].encryptedTimestamp.value
    /\ events[2].timestamp = now

(***************************************************************************)
(* C27  In the page's submitMessage the list is reloaded only after the    *)
(* transaction is confirmed, on the mock path (Hardhat chain) and on the   *)
(* encrypted path alike: a step of the submission that starts a load is    *)
(* the resolution of tx.wait() for a transaction the ledger has applied,   *)
(* storing the submitter's message under the id kept from its event.  A    *)
(* submission that fails, by a guard or from inside the try, ends thrown   *)
(* or rethrown and starts no load, caches no plaintext and leaves the      *)
(* list as it was; a plaintext is cached only on the Hardhat chain, for    *)
(* the id of the confirmed transaction.                                    *)
(***************************************************************************)
C27_ReloadAfterConfirmation ==
    [][/\ (submit' # submit /\ Len(loads') > Len(loads)) =>
              /\ submit.stage = "mined"
              /\ submit' = Idle("ok")
              /\ messages[submit.messageId].exists
              /\ messages[submit.messageId].sender = submit.account
              /\ SubmissionOf(submit.messageId).op =
                     IF isLocalNetwork THEN "submitMessageMock" ELSE "submitMessage"
              /\ loads' = Append(loads, [account |-> submit.account, stage |-> "ids",
                                         ids |-> <<>>])
       /\ (submit' # submit /\ submit'.result \in {"thrown", "rethrown"}) =>
              /\ submit'.stage = "idle"
              /\ UNCHANGED <<loads, isLoading, homeMessages, localMessageContents>>
              /\ UNCHANGED registry
       /\ localMessageContents' # localMessageContents =>
              /\ submit.stage = "mined"
              /\ isLocalNetwork
              /\ localMessageContents' =
                     (submit.messageId :> submit.content) @@ localMessageContents
       /\ (submit' # submit /\ submit'.result = "ok") => Len(loads') > Len(loads)]_vars

\* On Sepolia a submission has been confirmed and the reload it started is
\* in flight for the submitter; no plaintext is cached.
C27_Witness ==
    /\ ~isLocalNetwork
    /\ submit = Idle("ok")
    /\ totalMessages = 1
    /\ \E i \in 1..Len(loads) :
          loads[i].account = messages[0].sender /\ loads[i].stage = "ids"
    /\ localMessageContents = [id \in {} |-> ""]

ShownIds == [k \in 1..Len(homeMessages) |-> homeMessages[k].id]

C29_OverlappingLoadsConverge ==
    /\ loads # <<>> => isLoading
    /\ (loads = <<>> /\ submit.stage = "idle" /\ account # NoAccount) =>
           ShownIds = getUserMessages(account).val

(***************************************************************************)
(* C30  The list of the page holds messages of the connected account       *)
(* only: every listed id is a message whose sender is the connected        *)
(* account, and with no account connected the list is empty.  The page     *)
(* clears the list on no account change; it only replaces it when a load   *)
(* for the new account completes, so the statement does not hold of the    *)
(* code.                                                                   *)
(***************************************************************************)
C30_ListIsOfConnectedAccount ==
    \A k \in 1..Len(homeMessages) :
        /\ account # NoAccount
        /\ getMessageMetadata(homeMessages[k].id).val[1] = account

(***************************************************************************)
(* C31.  A listed message becomes decrypted only in the step in which the  *)
(* signature request of a decryptMessage call for that message succeeds.   *)
(* A call made without a signer changes neither the list nor the calls in  *)
(* flight (isDecrypting is not set), and a signature request that is       *)
(* rejected or throws leaves decrypted and content of every message as     *)
(* they were.                                                              *)
(***************************************************************************)
C31_DecryptedOnlyAfterSignature ==
    [][ /\ \A k \in 1..Len(homeMessages') :
              (/\ homeMessages'[k].decrypted
               /\ ~\E i \in 1..Len(homeMessages) :
                      /\ homeMessages[i].id = homeMessages'[k].id
                      /\ homeMessages[i].decrypted)
              => /\ \E j \in 1..Len(decrypts) :
                       /\ decrypts[j].messageId = homeMessages'[k].id
                       /\ decrypts' = RemoveAt(decrypts, j)
                 /\ toast' = "Message Decrypted"
        /\ (toast' = "Wallet Not Connected" /\ toast # "Wallet Not Connected")
              => /\ account = NoAccount
                 /\ homeMessages' = homeMessages
                 /\ decrypts' = decrypts
        /\ (toast' = "Decryption Failed" /\ Len(decrypts') < Len(decrypts))
              => /\ Len(homeMessages') = Len(homeMessages)
                 /\ \A k \in 1..Len(homeMessages) :
                       /\ homeMessages'[k].id = homeMessages[k].id
                       /\ homeMessages'[k].decrypted = homeMessages[k].decrypted
                       /\ homeMessages'[k].content = homeMessages[k].content
      ]_vars

\* Two messages are listed; the signature for one was given and it is shown
\* decrypted, the signature for the other has just been refused and it is
\* still undecrypted and empty.
C31_Witness ==
    /\ Len(homeMessages) = 2
    /\ toast = "Decryption Failed"
    /\ decrypts = <<>>
    /\ \E k, l \in 1..2 :
          /\ homeMessages[k].decrypted
          /\ ~homeMessages[l].decrypted
          /\ homeMessages[l].content = ""
          /\ ~homeMessages[l].isDecrypting

(***************************************************************************)
(* The page loading and decrypting, with every signature request settled:  *)
(* the wallet answers the oldest request in flight, by a signature or by a *)
(* refusal.  The page is as in SpecLoad; of the two signers one submits,   *)
(* so the other's list is empty and a switch to it unlists the messages.   *)
(***************************************************************************)
SettleOldest ==
    /\ SignResolved \/ SignRejected
    /\ decrypts' = Tail(decrypts)

NextLoadFair ==
    \/ Len(loads) < MaxLoadsWithDecrypts /\ AccountsChanged
    \/ GetUserMessagesReturned
    \/ LoadCompleted
    \/ LoadFailed
    \/ DecryptCalled
    \/ SignResolved
    \/ SignRejected
    \/ SubmitElsewhere /\ submissions'[Len(submissions')].caller = "alice"
    \/ now = totalMessages /\ NewBlock

FairSpecLoad == Init /\ [][NextLoadFair]_vars /\ WF_vars(SettleOldest)

\* The message with this id is listed as decrypting.
Decrypting(messageId) ==
    \E k \in 1..Len(homeMessages) :
        /\ homeMessages[k].id = messageId
        /\ homeMessages[k].isDecrypting

\* The ids of the calls that start or settle in this step.
StartedOrSettled ==
    IF Len(decrypts') > Len(decrypts)
    THEN {decrypts'[Len(decrypts')].messageId}
    ELSE {decrypts[j].messageId :
             j \in {i \in 1..Len(decrypts) : decrypts' = RemoveAt(decrypts, i)}}

(***************************************************************************)
(* C32.  Provided the signature requests settle, a message listed as       *)
(* decrypting is eventually no longer decrypting.  When a call settles by  *)
(* a signature its message, if listed, is decrypted and not decrypting;    *)
(* when it settles by a refusal its message is not decrypting and as       *)
(* decrypted as before.  A call that starts or settles leaves every other  *)
(* message as it was.                                                      *)
(***************************************************************************)
C32_DecryptingIsCleared ==
    /\ \A m \in MessageIds : Decrypting(m) ~> ~Decrypting(m)
    /\ [][ decrypts' # decrypts =>
            /\ Len(homeMessages') = Len(homeMessages)
            /\ \A k \in 1..Len(homeMessages) :
                  IF homeMessages[k].id \notin StartedOrSettled
                  THEN homeMessages'[k] = homeMessages[k]
                  ELSE /\ homeMessages'[k].id = homeMessages[k].id
                       /\ toast' = "Message Decrypted"
                             => /\ homeMessages'[k].decrypted
                                /\ ~homeMessages'[k].isDecrypting
                       /\ toast' = "Decryption Failed"
                             => /\ ~homeMessages'[k].isDecrypting
                                /\ homeMessages'[k].decrypted = homeMessages[k].decrypted
         ]_vars

\* Two messages are listed and no call is in flight: the call for one has
\* ended by a signature, it is decrypted and no longer decrypting; the other
\* was never touched.
C32_Witness ==
    /\ Len(homeMessages) = 2
    /\ toast = "Message Decrypted"
    /\ decrypts = <<>>
    /\ \E k, l \in 1..2 :
          /\ homeMessages[k].decrypted
          /\ ~homeMessages[k].isDecrypting
          /\ homeMessages[l] = MessagesData(<<homeMessages[l].id>>)[1]

(***************************************************************************)
(* The page submitting and decrypting.  One account connects, on the       *)
(* Hardhat chain or on Sepolia; a message is submitted through the form or *)
(* from another client; the loads list it and it is decrypted.             *)
(***************************************************************************)
NextRoundTrip ==
    \/ account = NoAccount /\ AccountsChanged
    \/ totalMessages < MaxPageMessages /\ SubmitCalled
    \/ WalletRejected
    \/ WalletConfirmed
    \/ TxMined
    \/ TxReverted
    \/ WaitResolved
    \/ GetUserMessagesReturned
    \/ LoadCompleted
    \/ DecryptCalled
    \/ SignResolved
    \/ SignRejected
    \/ totalMessages < MaxPageMessages /\ submit.stage = "idle" /\ SubmitElsewhere

SpecRoundTrip == InitHome /\ [][NextRoundTrip]_vars

(***************************************************************************)
(* C33.  When a decryptMessage call for a listed message m settles by a    *)
(* signature, m is marked decrypted, and what it shows is: on chain 31337  *)
(* or 1337 the string localMessageContents holds for m (the content typed  *)
(* when m was submitted and confirmed in this session), or the placeholder *)
(* "[Message #m - content not cached]" if it holds none; on any other      *)
(* chain the fixed placeholder.  A call reads localMessageContents as it   *)
(* was when the button was pressed, not as it is when the signature        *)
(* arrives: a call made between the listing of m and the confirmation of   *)
(* its submission shows the placeholder although the content is cached by  *)
(* then, so the statement does not hold of the code.                       *)
(***************************************************************************)
C33_RoundTrip ==
    [][ (toast' = "Message Decrypted" /\ Len(decrypts') < Len(decrypts)) =>
          \A k \in 1..Len(homeMessages) :
              homeMessages[k].id \in StartedOrSettled =>
                  LET m == homeMessages[k].id
                  IN  /\ homeMessages'[k].decrypted
                      /\ homeMessages'[k].content =
                            IF ~isLocalNetwork
                            THEN "[Decryption not implemented for production]"
                            ELSE IF m \in DOMAIN localMessageContents
                            THEN localMessageContents[m]
                            ELSE "[Message #" \o ToString(m) \o " - content not cached]"
      ]_vars

=============================================================================
